---- MODULE Spec2Model ----
(***************************************************************************)
(* ms-teams-push (src/main.py): a single linear batch job.  It reads two   *)
(* environment variables, fetches the latest trade intervention from the   *)
(* data API, renders the first record as an Adaptive Card and posts the    *)
(* card to a Teams incoming webhook.                                       *)
(*                                                                         *)
(* Python values are represented as follows.                               *)
(*   dict            a function whose DOMAIN is the set of keys present    *)
(*   list            a sequence                                            *)
(*   Optional[T]     None == <<>>, a present value v is <<v>>              *)
(*   str, int, bool  strings, integers, BOOLEAN                            *)
(***************************************************************************)
EXTENDS Integers, Sequences, FiniteSets, TLC

VARIABLES pc, environ, WEBHOOK_URL, GTA_API_KEY, interventions, payload,
          response, log, stdout, http_calls, exit_code, uncaught, trace

vars == <<pc, environ, WEBHOOK_URL, GTA_API_KEY, interventions, payload,
          response, log, stdout, http_calls, exit_code, uncaught, trace>>

(***************************************************************************)
(* Bounds of the model.                                                    *)
(***************************************************************************)
\* longest jurisdiction list of a record
MaxJur == 7
\* longest list of records the data API answers with
MaxFetch == 2

(***************************************************************************)
(* Python primitives.                                                      *)
(***************************************************************************)
None == <<>>
Some(v) == <<v>>
EmptyDict == [k \in {} |-> 0]

\* dict.get(key, default)
Get(d, k, default) == IF k \in DOMAIN d THEN d[k] ELSE default

\* sep.join(strs)
RECURSIVE Join(_, _)
Join(strs, sep) ==
  IF Len(strs) = 0 THEN ""
  ELSE IF Len(strs) = 1 THEN strs[1]
  ELSE strs[1] \o sep \o Join(Tail(strs), sep)

\* xs[:n]
Take(xs, n) == SubSeq(xs, 1, IF Len(xs) < n THEN Len(xs) ELSE n)

\* str(n) of an int
Str(n) == ToString(n)

\* variant of Falsy: `X is None` in place of `not X`
Falsy_NoneOnly(opt) == opt = None

\* `not X` of an Optional[str]: None and the empty string are falsy
Falsy(opt) == opt = None \/ opt[1] = ""

\* os.getenv(name)
getenv(env, name) == IF name \in DOMAIN env THEN Some(env[name]) ELSE None

\* the text json.dumps(v) writes, represented by the document it encodes
json_dumps(v) == [json |-> v]

(***************************************************************************)
(* _generate_adaptive_card: the display strings, lines 93-117.             *)
(***************************************************************************)
\* [i.get('name', 'N/A') for i in jurisdictions]
names_of(jurisdictions) ==
  [i \in 1..Len(jurisdictions) |-> Get(jurisdictions[i], "name", "N/A")]

\* variant of display_implementer: the suffix counts every name
display_implementer_CountsAll(implementer_names) ==
  IF Len(implementer_names) > 5
  THEN Join(Take(implementer_names, 5), ", ")
         \o ", and " \o Str(Len(implementer_names)) \o " more."
  ELSE IF Len(implementer_names) # 0
       THEN Join(implementer_names, ", ")
       ELSE "N/A"

display_implementer(implementer_names) ==
  IF Len(implementer_names) > 5
  THEN Join(Take(implementer_names, 5), ", ")
         \o ", and " \o Str(Len(implementer_names) - 5) \o " more."
  ELSE IF Len(implementer_names) # 0
       THEN Join(implementer_names, ", ")
       ELSE "N/A"

\* variant of display_affected: `>= 5` in place of `> 5`
display_affected_FromFive(affected_names) ==
  IF Len(affected_names) >= 5
  THEN Join(Take(affected_names, 5), ", ")
         \o ", and " \o Str(Len(affected_names) - 5) \o " more."
  ELSE IF Len(affected_names) # 0
       THEN Join(affected_names, ", ")
       ELSE "N/A"

display_affected(affected_names) ==
  IF Len(affected_names) > 5
  THEN Join(Take(affected_names, 5), ", ")
         \o ", and " \o Str(Len(affected_names) - 5) \o " more."
  ELSE IF Len(affected_names) # 0
       THEN Join(affected_names, ", ")
       ELSE "N/A"

color_map == [Red |-> "attention", Amber |-> "warning", Green |-> "good"]

status_color(evaluation) == Get(color_map, evaluation, "default")

\* truthiness of the is_in_force flag (an int of the API)
Truthy(flag) == flag # 0

force_status(is_in_force) ==
  IF Truthy(is_in_force) THEN "In Force" ELSE "Not In Force"

\* variant of force_color: the two colours swapped
force_color_Swapped(is_in_force) ==
  IF Truthy(is_in_force) THEN "attention" ELSE "good"

force_color(is_in_force) ==
  IF Truthy(is_in_force) THEN "good" ELSE "attention"

(***************************************************************************)
(* _generate_adaptive_card: the card document, lines 119-240.              *)
(***************************************************************************)
TitleBlock(title) ==
  [type |-> "TextBlock", text |-> title, weight |-> "bolder",
   size |-> "medium", wrap |-> TRUE, horizontalAlignment |-> "Center",
   style |-> "heading"]

StatusRow(evaluation, is_in_force) ==
  [type |-> "ColumnSet",
   columns |-> <<
     [type |-> "Column", width |-> "stretch",
      items |-> << [type |-> "TextBlock",
                    text |-> "GTA Evaluation: " \o evaluation,
                    weight |-> "bolder",
                    color |-> status_color(evaluation),
                    spacing |-> "small"] >>],
     [type |-> "Column", width |-> "stretch",
      items |-> << [type |-> "TextBlock",
                    text |-> "Status: " \o force_status(is_in_force),
                    weight |-> "bolder",
                    color |-> force_color(is_in_force),
                    spacing |-> "small",
                    horizontalAlignment |-> "right"] >>] >>]

FactTable(intervention_type, mast_chapter, implementation_level, date_implemented, num_products, num_sectors) ==
  [type |-> "Container", style |-> "emphasis", spacing |-> "medium",
   items |-> <<
     [type |-> "FactSet", spacing |-> "medium",
      facts |-> <<
        [title |-> "Intervention Type", value |-> intervention_type],
        [title |-> "MAST Chapter", value |-> mast_chapter],
        [title |-> "Implementation Level", value |-> implementation_level],
        [title |-> "Date Implemented", value |-> date_implemented],
        [title |-> "Affected Products",
         value |-> Str(num_products) \o " product(s)"],
        [title |-> "Affected Sectors",
         value |-> Str(num_sectors) \o " sector(s)"] >>] >>]

JurisdictionBlock(heading, display) ==
  [type |-> "Container", spacing |-> "medium",
   items |-> <<
     [type |-> "TextBlock", text |-> heading, wrap |-> TRUE,
      weight |-> "bolder", spacing |-> "medium"],
     [type |-> "TextBlock", text |-> display, wrap |-> TRUE,
      spacing |-> "small"] >>]

ActionBlock(intervention_url) ==
  [type |-> "Container", spacing |-> "medium",
   items |-> <<
     [type |-> "ActionSet",
      actions |-> <<
        [type |-> "Action.OpenUrl",
         title |-> "View Full Intervention Details",
         url |-> intervention_url,
         style |-> "positive"] >>] >>]

_generate_adaptive_card(data) ==
  LET title == Get(data, "state_act_title", "N/A")
      intervention_url == Get(data, "intervention_url", "#")
      evaluation == Get(data, "gta_evaluation", "N/A")
      affected_list == Get(data, "affected_jurisdictions", <<>>)
      implementers_list == Get(data, "implementing_jurisdictions", <<>>)
      intervention_type == Get(data, "intervention_type", "N/A")
      mast_chapter == Get(data, "mast_chapter", "N/A")
      date_implemented == Get(data, "date_implemented", "N/A")
      is_in_force == Get(data, "is_in_force", 0)
      implementation_level == Get(data, "implementation_level", "N/A")
      affected_products == Get(data, "affected_products", <<>>)
      affected_sectors == Get(data, "affected_sectors", <<>>)
      implementer_names == names_of(implementers_list)
      affected_names == names_of(affected_list)
      num_products == Len(affected_products)
      num_sectors == Len(affected_sectors)
      card ==
        ("$schema" :> "http://adaptivecards.io/schemas/adaptive-card.json")
        @@ [type |-> "AdaptiveCard",
            version |-> "1.5",
            body |-> <<
              TitleBlock(title),
              StatusRow(evaluation, is_in_force),
              FactTable(intervention_type, mast_chapter,
                        implementation_level, date_implemented,
                        num_products, num_sectors),
              JurisdictionBlock("**Implementing Jurisdictions:**",
                                display_implementer(implementer_names)),
              JurisdictionBlock("**Affected Jurisdictions:**",
                                display_affected(affected_names)),
              ActionBlock(intervention_url) >>]
  IN [type |-> "message",
      attachments |-> <<
        [contentType |-> "application/vnd.microsoft.card.adaptive",
         content |-> card] >>]

(***************************************************************************)
(* Logging: basicConfig(level=logging.INFO), lines 12-15.                  *)
(***************************************************************************)
LevelNo == [DEBUG |-> 10, INFO |-> 20, ERROR |-> 40]

root_level == "INFO"

\* logging.<level>(msg): a record below the root level is dropped
emit(records, level, msg) ==
  IF LevelNo[level] >= LevelNo[root_level]
  THEN Append(records, [level |-> level, msg |-> msg])
  ELSE records

(***************************************************************************)
(* The requests library as the two I/O functions use it.  What the network *)
(* does to one call is an outcome: either an exception of the transport    *)
(* (exc) or an HTTP response.  A response carries its raw text and, when   *)
(* that text is JSON, the value it parses to (json).                       *)
(***************************************************************************)
RequestExceptions == {"ConnectionError", "Timeout", "HTTPError", "JSONDecodeError"}

\* variant of IsRequestException: `except requests.exceptions.HTTPError`
IsRequestException_HTTPErrorOnly(e) == e.type = "HTTPError"

\* `except requests.exceptions.RequestException as e`
IsRequestException(e) == e.type \in RequestExceptions

\* Response.raise_for_status(): HTTPError for a 4xx or 5xx status, else nothing
raise_for_status(resp) ==
  IF 400 <= resp.status_code /\ resp.status_code < 500
  THEN Some([type |-> "HTTPError",
             msg |-> Str(resp.status_code) \o " Client Error: " \o resp.reason
                       \o " for url: " \o resp.url])
  ELSE IF 500 <= resp.status_code /\ resp.status_code < 600
  THEN Some([type |-> "HTTPError",
             msg |-> Str(resp.status_code) \o " Server Error: " \o resp.reason
                       \o " for url: " \o resp.url])
  ELSE None

\* Response.json(): the parsed body, or JSONDecodeError
response_json(resp) ==
  IF resp.json = None
  THEN [raised |-> Some([type |-> "JSONDecodeError", msg |-> "Expecting value"]),
        value |-> None]
  ELSE [raised |-> None, value |-> resp.json]

\* bool(response) of `if response:` is Response.ok
response_truthy(opt) == opt # None /\ raise_for_status(opt[1]) = None

(***************************************************************************)
(* send_teams_message, lines 18-42.  The result names the request issued,  *)
(* the records logged, the value returned and the exception that left the  *)
(* function, if any.                                                       *)
(***************************************************************************)
send_teams_message(webhook_url, message_payload, outcome) ==
  LET headers == ("Content-Type" :> "application/json")
      request == [method |-> "POST", url |-> webhook_url,
                  headers |-> headers, data |-> json_dumps(message_payload)]
      resp == outcome.response[1] @@ [url |-> webhook_url]
      e == IF outcome.exc # None THEN outcome.exc
           ELSE raise_for_status(resp)
  IN IF e = None
     THEN [request |-> request, logs |-> <<>>,
           returned |-> Some(resp), raised |-> None]
     ELSE IF IsRequestException(e[1])
     THEN [request |-> request,
           logs |-> emit(<<>>, "ERROR",
                         "Error sending message to Teams: " \o e[1].msg),
           returned |-> None, raised |-> None]
     ELSE [request |-> request, logs |-> <<>>,
           returned |-> None, raised |-> e]

(***************************************************************************)
(* get_interventions, lines 45-66.                                         *)
(***************************************************************************)
_url == "https://api.globaltradealert.org/api/v1/data/"

\* variant of fetch_failed: only 4xx and 5xx count as failure
fetch_failed_From400(resp) == resp.status_code >= 400

\* line 63
fetch_failed(resp) == resp.status_code # 200

get_interventions(api_key, outcome) ==
  LET body == "{\"limit\": 1, \"offset\": 0, "
                \o "\"request_data\": {\"implementer\": [840]}}"
      headers == ("Content-Type" :> "application/json")
                 @@ ("Authorization" :> ("APIKey " \o api_key))
      request == [method |-> "POST", url |-> _url,
                  headers |-> headers, data |-> body]
      resp == outcome.response[1] @@ [url |-> _url]
      parsed == response_json(resp)
  IN IF outcome.exc # None
     THEN [request |-> request, logs |-> <<>>,
           returned |-> None, raised |-> outcome.exc]
     ELSE IF fetch_failed(resp)
     THEN [request |-> request,
           logs |-> emit(<<>>, "ERROR",
                         "Error retrieving interventions: " \o resp.text),
           returned |-> Some(<<>>), raised |-> None]
     ELSE [request |-> request, logs |-> <<>>,
           returned |-> parsed.value, raised |-> parsed.raised]

(***************************************************************************)
(* The inputs of a run: the process environment and what the two remote    *)
(* services answer.                                                        *)
(***************************************************************************)
EnvNames == {"WEBHOOK_URL", "GTA_API_KEY"}

EnvValue ==
  [WEBHOOK_URL |-> "https://contoso.webhook.office.com/webhookb2/1",
   GTA_API_KEY |-> "secret-key"]

\* each variable is unset, set to the empty string, or set
Environments ==
  UNION { { [n \in D |-> IF n \in E THEN "" ELSE EnvValue[n]] : E \in SUBSET D }
          : D \in SUBSET EnvNames }

NetworkErrors ==
  { [type |-> "ConnectionError", msg |-> "Connection refused"],
    [type |-> "Timeout", msg |-> "Read timed out"] }

\* records of the data API, each with a JSON text denoting it
SampleRecords == <<
  [text |-> "{}", value |-> EmptyDict],
  [text |-> "{\"state_act_title\": \"Steel tariff\", "
              \o "\"gta_evaluation\": \"Red\", \"is_in_force\": 1, "
              \o "\"implementing_jurisdictions\": [{\"name\": \"USA\"}, "
              \o "{\"name\": \"Canada\"}, {\"name\": \"Mexico\"}, "
              \o "{\"name\": \"Brazil\"}, {\"name\": \"Chile\"}, "
              \o "{\"name\": \"Peru\"}, {\"name\": \"Cuba\"}]}",
   value |-> [state_act_title |-> "Steel tariff",
              gta_evaluation |-> "Red",
              is_in_force |-> 1,
              implementing_jurisdictions |->
                << [name |-> "USA"], [name |-> "Canada"], [name |-> "Mexico"],
                   [name |-> "Brazil"], [name |-> "Chile"], [name |-> "Peru"],
                   [name |-> "Cuba"] >>]],
  [text |-> "{\"gta_evaluation\": \"Green\", "
              \o "\"intervention_url\": \"https://gta.example/i/2\", "
              \o "\"affected_jurisdictions\": [{\"name\": \"China\"}, {}], "
              \o "\"affected_products\": [7208, 7209]}",
   value |-> [gta_evaluation |-> "Green",
              intervention_url |-> "https://gta.example/i/2",
              affected_jurisdictions |-> << [name |-> "China"], EmptyDict >>,
              affected_products |-> <<7208, 7209>>]] >>

RecordLists == UNION { [1..k -> DOMAIN SampleRecords] : k \in 0..MaxFetch }

\* the body of a response: a JSON list of records, or text that is no JSON
ListBody(ixs) ==
  [text |-> "[" \o Join([i \in 1..Len(ixs) |-> SampleRecords[ixs[i]].text], ", ")
              \o "]",
   json |-> Some([i \in 1..Len(ixs) |-> SampleRecords[ixs[i]].value])]

TextBody(t) == [text |-> t, json |-> None]

FetchBodies ==
  { ListBody(ixs) : ixs \in RecordLists }
    \cup { TextBody("Forbidden"), TextBody("") }

FetchStatuses ==
  { [status_code |-> 200, reason |-> "OK"],
    [status_code |-> 201, reason |-> "Created"],
    [status_code |-> 304, reason |-> "Not Modified"],
    [status_code |-> 403, reason |-> "Forbidden"],
    [status_code |-> 500, reason |-> "Internal Server Error"] }

FetchOutcomes ==
  { [exc |-> Some(e), response |-> None] : e \in NetworkErrors }
    \cup { [exc |-> None, response |-> Some(st @@ b)]
           : st \in FetchStatuses, b \in FetchBodies }

WebhookResponses ==
  { [status_code |-> 200, reason |-> "OK", text |-> "1", json |-> Some(1)],
    [status_code |-> 202, reason |-> "Accepted", text |-> "", json |-> None],
    [status_code |-> 304, reason |-> "Not Modified", text |-> "", json |-> None],
    [status_code |-> 400, reason |-> "Bad Request",
     text |-> "Invalid webhook request", json |-> None],
    [status_code |-> 429, reason |-> "Too Many Requests",
     text |-> "Throttled", json |-> None],
    [status_code |-> 500, reason |-> "Internal Server Error",
     text |-> "", json |-> None] }

WebhookOutcomes ==
  { [exc |-> Some(e), response |-> None] : e \in NetworkErrors }
    \cup { [exc |-> None, response |-> Some(r)] : r \in WebhookResponses }

(***************************************************************************)
(* __main__, lines 251-283.                                                *)
(***************************************************************************)
Init ==
  /\ pc = "start"
  /\ environ \in Environments
  /\ WEBHOOK_URL = None
  /\ GTA_API_KEY = None
  /\ interventions = None
  /\ payload = None
  /\ response = None
  /\ log = <<>>
  /\ stdout = <<>>
  /\ http_calls = <<>>
  /\ exit_code = None
  /\ uncaught = None
  /\ trace = <<>>

\* lines 252-255
ReadEnv ==
  /\ pc = "start"
  /\ WEBHOOK_URL' = getenv(environ, "WEBHOOK_URL")
  /\ GTA_API_KEY' = getenv(environ, "GTA_API_KEY")
  /\ pc' = "check_webhook"
  /\ UNCHANGED <<environ, interventions, payload, response, log, stdout,
                 http_calls, exit_code, uncaught, trace>>

\* lines 257-260
CheckWebhookUrl ==
  /\ pc = "check_webhook"
  /\ IF Falsy(WEBHOOK_URL)
     THEN /\ log' = emit(emit(log, "ERROR",
                   "FATAL: The 'WEBHOOK_URL' environment variable is not set."),
                   "ERROR",
                   "Set the environment variable in your .env file and try again.")
          /\ exit_code' = Some(1)
          /\ pc' = "exited"
     ELSE /\ pc' = "check_key"
          /\ UNCHANGED <<log, exit_code>>
  /\ UNCHANGED <<environ, WEBHOOK_URL, GTA_API_KEY, interventions, payload,
                 response, stdout, http_calls, uncaught, trace>>

\* lines 263-266
CheckApiKey ==
  /\ pc = "check_key"
  /\ IF Falsy(GTA_API_KEY)
     THEN /\ log' = emit(emit(log, "ERROR",
                   "FATAL: The 'GTA_API_KEY' environment variable is not set."),
                   "ERROR",
                   "Set the environment variable in your .env file and try again.")
          /\ exit_code' = Some(1)
          /\ pc' = "exited"
     ELSE /\ pc' = "fetch"
          /\ UNCHANGED <<log, exit_code>>
  /\ UNCHANGED <<environ, WEBHOOK_URL, GTA_API_KEY, interventions, payload,
                 response, stdout, http_calls, uncaught, trace>>

\* line 269.  An exception that leaves get_interventions is caught nowhere:
\* the interpreter prints the traceback and the process exits with status 1.
Fetch ==
  /\ pc = "fetch"
  /\ \E outcome \in FetchOutcomes :
       LET r == get_interventions(GTA_API_KEY[1], outcome)
       IN /\ http_calls' = Append(http_calls,
                                  [request |-> r.request, outcome |-> outcome])
          /\ log' = log \o r.logs
          /\ trace' = Append(trace, "fetch")
          /\ IF r.raised # None
             THEN /\ uncaught' = r.raised
                  /\ exit_code' = Some(1)
                  /\ pc' = "exited"
                  /\ UNCHANGED interventions
             ELSE /\ interventions' = r.returned
                  /\ pc' = "branch"
                  /\ UNCHANGED <<uncaught, exit_code>>
  /\ UNCHANGED <<environ, WEBHOOK_URL, GTA_API_KEY, payload, response, stdout>>

\* variant of BuildCard: the card is built from interventions[-1]
BuildCard_LastRecord ==
  /\ pc = "branch"
  /\ Len(interventions[1]) # 0
  /\ payload' = Some(_generate_adaptive_card(
                       interventions[1][Len(interventions[1])]))
  /\ stdout' = Append(stdout, json_dumps(payload'[1]))
  /\ trace' = Append(trace, "build")
  /\ pc' = "send"
  /\ UNCHANGED <<environ, WEBHOOK_URL, GTA_API_KEY, interventions, response,
                 log, http_calls, exit_code, uncaught>>

\* lines 271-273
BuildCard ==
  /\ pc = "branch"
  /\ Len(interventions[1]) # 0
  /\ payload' = Some(_generate_adaptive_card(interventions[1][1]))
  /\ stdout' = Append(stdout, json_dumps(payload'[1]))
  /\ trace' = Append(trace, "build")
  /\ pc' = "send"
  /\ UNCHANGED <<environ, WEBHOOK_URL, GTA_API_KEY, interventions, response,
                 log, http_calls, exit_code, uncaught>>

\* variant of NoInterventions: an empty result ends the run with sys.exit(1)
NoInterventions_ExitOne ==
  /\ pc = "branch"
  /\ Len(interventions[1]) = 0
  /\ log' = emit(log, "INFO", "No interventions found.")
  /\ trace' = Append(trace, "log")
  /\ exit_code' = Some(1)
  /\ pc' = "exited"
  /\ UNCHANGED <<environ, WEBHOOK_URL, GTA_API_KEY, interventions, payload,
                 response, stdout, http_calls, uncaught>>

\* lines 271, 282-283
NoInterventions ==
  /\ pc = "branch"
  /\ Len(interventions[1]) = 0
  /\ log' = emit(log, "INFO", "No interventions found.")
  /\ trace' = Append(trace, "log")
  /\ exit_code' = Some(0)
  /\ pc' = "exited"
  /\ UNCHANGED <<environ, WEBHOOK_URL, GTA_API_KEY, interventions, payload,
                 response, stdout, http_calls, uncaught>>

\* line 275
Send ==
  /\ pc = "send"
  /\ \E outcome \in WebhookOutcomes :
       LET r == send_teams_message(WEBHOOK_URL[1], payload[1], outcome)
       IN /\ http_calls' = Append(http_calls,
                                  [request |-> r.request, outcome |-> outcome])
          /\ log' = log \o r.logs
          /\ trace' = Append(trace, "send")
          /\ IF r.raised # None
             THEN /\ uncaught' = r.raised
                  /\ exit_code' = Some(1)
                  /\ pc' = "exited"
                  /\ UNCHANGED response
             ELSE /\ response' = r.returned
                  /\ pc' = "report"
                  /\ UNCHANGED <<uncaught, exit_code>>
  /\ UNCHANGED <<environ, WEBHOOK_URL, GTA_API_KEY, interventions, payload,
                 stdout>>

\* lines 277-281
Report ==
  /\ pc = "report"
  /\ IF response_truthy(response)
     THEN log' = emit(emit(log, "INFO", "Message sent successfully!"),
                      "DEBUG", "Response Text: " \o response[1].text)
     ELSE log' = emit(log, "ERROR",
                      "Failed to send message. Check the logs above for details.")
  /\ trace' = Append(trace, "log")
  /\ exit_code' = Some(0)
  /\ pc' = "exited"
  /\ UNCHANGED <<environ, WEBHOOK_URL, GTA_API_KEY, interventions, payload,
                 response, stdout, http_calls, uncaught>>

Next ==
  \/ ReadEnv
  \/ CheckWebhookUrl
  \/ CheckApiKey
  \/ Fetch
  \/ BuildCard
  \/ NoInterventions
  \/ Send
  \/ Report

Spec == Init /\ [][Next]_vars

(***************************************************************************)
(* _generate_adaptive_card as a function: a caller holds one record and    *)
(* calls it.  The records cover every subset of the twelve fields, every   *)
(* jurisdiction list of up to MaxJur entries (named or not), and every     *)
(* evaluation with every in-force flag.                                    *)
(***************************************************************************)
FullRecord ==
  [state_act_title |-> "Steel tariff",
   intervention_url |-> "https://gta.example/i/1",
   gta_evaluation |-> "Amber",
   affected_jurisdictions |-> << [name |-> "China"] >>,
   implementing_jurisdictions |-> << [name |-> "USA"], EmptyDict >>,
   intervention_type |-> "Import tariff",
   mast_chapter |-> "D",
   date_implemented |-> "2025-03-12",
   is_in_force |-> 1,
   implementation_level |-> "National",
   affected_products |-> <<7208, 7209>>,
   affected_sectors |-> <<411>>]

FieldSubsets ==
  { [k \in D |-> FullRecord[k]] : D \in SUBSET DOMAIN FullRecord }

JurisdictionEntries == { EmptyDict, [name |-> "USA"], [name |-> "China"] }

JurisdictionLists ==
  UNION { [1..k -> JurisdictionEntries] : k \in 0..MaxJur }

NumberedList(n) == [i \in 1..n |-> [name |-> "J" \o Str(i)]]

JurisdictionRecords ==
  { [implementing_jurisdictions |-> l] : l \in JurisdictionLists }
    \cup { [affected_jurisdictions |-> l] : l \in JurisdictionLists }
    \cup { [implementing_jurisdictions |-> NumberedList(m),
            affected_jurisdictions |-> NumberedList(n)]
           : m \in 0..MaxJur, n \in 0..MaxJur }

StatusRecords ==
  { [gta_evaluation |-> e, is_in_force |-> f]
    : e \in {"Red", "Amber", "Green", "Unclear"}, f \in {0, 1} }

CardInputs == FieldSubsets \cup JurisdictionRecords \cup StatusRecords

CardInit ==
  /\ pc = "call"
  /\ environ = EmptyDict
  /\ WEBHOOK_URL = None
  /\ GTA_API_KEY = None
  /\ interventions \in { Some(<<data>>) : data \in CardInputs }
  /\ payload = None
  /\ response = None
  /\ log = <<>>
  /\ stdout = <<>>
  /\ http_calls = <<>>
  /\ exit_code = None
  /\ uncaught = None
  /\ trace = <<>>

\* payload = _generate_adaptive_card(interventions[0]), line 272
CallGenerateCard ==
  /\ pc = "call"
  /\ payload' = Some(_generate_adaptive_card(interventions[1][1]))
  /\ pc' = "returned"
  /\ UNCHANGED <<environ, WEBHOOK_URL, GTA_API_KEY, interventions, response,
                 log, stdout, http_calls, exit_code, uncaught, trace>>

CardNext == CallGenerateCard

CardSpec == CardInit /\ [][CardNext]_vars

(***************************************************************************)
(* Properties.  What each reads off the state is defined here, apart from  *)
(* the operators that model the code.                                      *)
(***************************************************************************)
IsSet(name) == name \in DOMAIN environ /\ environ[name] # ""

EnvMissing == ~IsSet("WEBHOOK_URL") \/ ~IsSet("GTA_API_KEY")

Exited == pc = "exited"

FetchCalls == { i \in 1..Len(http_calls) : http_calls[i].request.url = _url }

WebhookCalls == { i \in 1..Len(http_calls) : http_calls[i].request.url # _url }

\* the outcome of the fetch call and of the webhook call, once made
FetchOutcome == http_calls[1].outcome

WebhookOutcome == http_calls[2].outcome

FetchAnswered == Len(http_calls) >= 1 /\ FetchOutcome.exc = None

WebhookAnswered == Len(http_calls) >= 2 /\ WebhookOutcome.exc = None

LastLog == log[Len(log)]

NoInterventionsLogged ==
  Len(log) >= 1 /\ LastLog = [level |-> "INFO", msg |-> "No interventions found."]

\* the run of the empty-result branch: nothing built, nothing posted, exit 0
EmptyResultRun ==
  /\ pc \in {"branch", "exited"}
  /\ payload = None
  /\ stdout = <<>>
  /\ response = None
  /\ WebhookCalls = {}
  /\ trace \in { <<"fetch">>, <<"fetch", "log">> }
  /\ Exited => exit_code = Some(0) /\ uncaught = None /\ NoInterventionsLogged

\* C1: when WEBHOOK_URL or GTA_API_KEY is unset or empty, the run never gets
\* past the configuration checks, no HTTP call is ever made, and the process
\* exits with code 1.
C1_MissingEnvExitsBeforeNetwork ==
  EnvMissing =>
    /\ http_calls = <<>>
    /\ pc \in {"start", "check_webhook", "check_key", "exited"}
    /\ Exited => exit_code = Some(1) /\ uncaught = None

C1_Witness ==
  /\ Exited
  /\ IsSet("WEBHOOK_URL")
  /\ "GTA_API_KEY" \in DOMAIN environ /\ environ["GTA_API_KEY"] = ""
  /\ exit_code = Some(1)
  /\ http_calls = <<>>

\* C2 (as claimed): no exception ever reaches the top level, a fetch that
\* fails (network failure or a status other than 200) leaves the caller with
\* the empty list, and a webhook call that fails (network failure or a status
\* outside 2xx) leaves the caller with no response.
C2_ErrorsContained ==
  /\ uncaught = None
  /\ (Len(http_calls) >= 1 /\ pc # "fetch"
        /\ (FetchOutcome.exc # None
              \/ FetchOutcome.response[1].status_code # 200))
       => interventions = Some(<<>>)
  /\ (Len(http_calls) >= 2 /\ pc # "send"
        /\ (WebhookOutcome.exc # None
              \/ WebhookOutcome.response[1].status_code \notin 200..299))
       => response = None

\* C3 (as claimed): the process exits with code 1 exactly when a required
\* environment variable is missing, and with code 0 on every other path.
C3_ExitCodeOneIffEnvMissing ==
  Exited =>
    /\ exit_code = Some(1) <=> EnvMissing
    /\ ~EnvMissing => exit_code = Some(0)

\* C4 (as claimed): send_teams_message never raises, returns None for every
\* status outside 2xx and for every network exception, and returns the
\* response only for a 2xx status.
C4_NoneUnlessStatus2xx ==
  /\ Len(http_calls) >= 2 => uncaught = None
  /\ pc \in {"report", "exited"} /\ Len(http_calls) >= 2 =>
       /\ (WebhookOutcome.exc # None
             \/ WebhookOutcome.response[1].status_code \notin 200..299)
            => response = None
       /\ response # None
            => /\ WebhookOutcome.exc = None
               /\ WebhookOutcome.response[1].status_code \in 200..299

\* C4 (amended): send_teams_message never raises; it returns None for every
\* 4xx or 5xx status and for every network exception, and returns the
\* response, with the status the webhook answered, for every other status,
\* every 2xx among them.
C4_NoneIffErrorStatus ==
  /\ Len(http_calls) >= 2 => uncaught = None
  /\ pc \in {"report", "exited"} /\ Len(http_calls) >= 2 =>
       IF WebhookOutcome.exc # None
            \/ WebhookOutcome.response[1].status_code \in 400..599
       THEN response = None
       ELSE /\ response # None
            /\ response[1].status_code = WebhookOutcome.response[1].status_code
            /\ response[1].text = WebhookOutcome.response[1].text

C4_Witness ==
  /\ pc = "report"
  /\ WebhookAnswered
  /\ WebhookOutcome.response[1].status_code = 500
  /\ response = None
  /\ log[Len(log)].level = "ERROR"

\* C5: after a fetch that returned the empty list no card is built, nothing
\* is printed or posted, and the run logs "No interventions found." and
\* exits 0.
C5_EmptyFetchSkipsCardAndSend ==
  interventions = Some(<<>>) => EmptyResultRun

C5_Witness ==
  /\ Exited
  /\ FetchAnswered
  /\ FetchOutcome.response[1].status_code = 200
  /\ FetchOutcome.response[1].text = "[]"
  /\ interventions = Some(<<>>)
  /\ exit_code = Some(0)
  /\ NoInterventionsLogged

\* C6: when the data API answers with a status other than 200,
\* get_interventions logs the response body as an error and returns the empty
\* list, and the run goes on as the empty-result run does.
C6_Non200IsEmptyResult ==
  FetchAnswered /\ FetchOutcome.response[1].status_code # 200 =>
    /\ interventions = Some(<<>>)
    /\ Len(log) >= 1
    /\ log[1] = [level |-> "ERROR",
                 msg |-> "Error retrieving interventions: "
                           \o FetchOutcome.response[1].text]
    /\ EmptyResultRun
    /\ Exited => Len(log) = 2

C6_Witness ==
  /\ Exited
  /\ FetchAnswered
  /\ FetchOutcome.response[1].status_code = 403
  /\ log = << [level |-> "ERROR",
               msg |-> "Error retrieving interventions: Forbidden"],
              [level |-> "INFO", msg |-> "No interventions found."] >>
  /\ exit_code = Some(0)

\* the record the card was built from, and the parts of the envelope
CardData == interventions[1][1]

CardBody == payload[1].attachments[1].content.body

ImplementerLine == CardBody[4].items[2].text

AffectedLine == CardBody[5].items[2].text

Facts == CardBody[3].items[1].facts

ListOf(data, field) == IF field \in DOMAIN data THEN data[field] ELSE <<>>

NameAt(l, i) == IF "name" \in DOMAIN l[i] THEN l[i].name ELSE "N/A"

FirstFiveAndMore(l) ==
  NameAt(l, 1) \o ", " \o NameAt(l, 2) \o ", " \o NameAt(l, 3) \o ", "
    \o NameAt(l, 4) \o ", " \o NameAt(l, 5)
    \o ", and " \o ToString(Len(l) - 5) \o " more."

AllNames(l) ==
  CASE Len(l) = 0 -> "N/A"
    [] Len(l) = 1 -> NameAt(l, 1)
    [] Len(l) = 2 -> NameAt(l, 1) \o ", " \o NameAt(l, 2)
    [] Len(l) = 3 -> NameAt(l, 1) \o ", " \o NameAt(l, 2) \o ", " \o NameAt(l, 3)
    [] Len(l) = 4 -> NameAt(l, 1) \o ", " \o NameAt(l, 2) \o ", " \o NameAt(l, 3)
                       \o ", " \o NameAt(l, 4)
    [] Len(l) = 5 -> NameAt(l, 1) \o ", " \o NameAt(l, 2) \o ", " \o NameAt(l, 3)
                       \o ", " \o NameAt(l, 4) \o ", " \o NameAt(l, 5)

\* C7: for a jurisdiction list of n > 5 entries the display string is the
\* first five names in input order joined by ", ", followed by
\* ", and {n-5} more.".
C7_LongListTruncated ==
  payload # None =>
    /\ Len(ListOf(CardData, "implementing_jurisdictions")) > 5
         => ImplementerLine
              = FirstFiveAndMore(CardData.implementing_jurisdictions)
    /\ Len(ListOf(CardData, "affected_jurisdictions")) > 5
         => AffectedLine = FirstFiveAndMore(CardData.affected_jurisdictions)

C7_Witness ==
  /\ payload # None
  /\ Len(ListOf(CardData, "implementing_jurisdictions")) = 7
  /\ ImplementerLine = "J1, J2, J3, J4, J5, and 2 more."
  /\ Len(ListOf(CardData, "affected_jurisdictions")) = 6
  /\ AffectedLine = "J1, J2, J3, J4, J5, and 1 more."

\* C8: for a jurisdiction list of at most 5 entries the display string is
\* every name joined by ", " and nothing more, and for an empty or absent
\* list it is exactly "N/A".
C8_ShortListJoined ==
  payload # None =>
    /\ Len(ListOf(CardData, "implementing_jurisdictions")) <= 5
         => ImplementerLine
              = AllNames(ListOf(CardData, "implementing_jurisdictions"))
    /\ Len(ListOf(CardData, "affected_jurisdictions")) <= 5
         => AffectedLine = AllNames(ListOf(CardData, "affected_jurisdictions"))

C8_Witness ==
  /\ payload # None
  /\ "implementing_jurisdictions" \in DOMAIN CardData
  /\ CardData.implementing_jurisdictions = <<>>
  /\ ImplementerLine = "N/A"
  /\ Len(ListOf(CardData, "affected_jurisdictions")) = 5
  /\ AffectedLine = "J1, J2, J3, J4, J5"

TextFields ==
  [state_act_title |-> 0, intervention_type |-> 1, mast_chapter |-> 2,
   implementation_level |-> 3, date_implemented |-> 4]

\* the text the card shows for one of the plain string fields
Shown(field) ==
  IF field = "state_act_title" THEN CardBody[1].text
  ELSE Facts[TextFields[field]].value

FullyFormed ==
  /\ DOMAIN payload[1] = {"type", "attachments"}
  /\ payload[1].type = "message"
  /\ Len(payload[1].attachments) = 1
  /\ payload[1].attachments[1].contentType
       = "application/vnd.microsoft.card.adaptive"
  /\ payload[1].attachments[1].content.type = "AdaptiveCard"
  /\ payload[1].attachments[1].content.version = "1.5"
  /\ Len(CardBody) = 6
  /\ [i \in 1..6 |-> CardBody[i].type]
       = <<"TextBlock", "ColumnSet", "Container", "Container", "Container",
           "Container">>
  /\ Len(CardBody[2].columns) = 2
  /\ [i \in 1..6 |-> Facts[i].title]
       = <<"Intervention Type", "MAST Chapter", "Implementation Level",
           "Date Implemented", "Affected Products", "Affected Sectors">>
  /\ CardBody[4].items[1].text = "**Implementing Jurisdictions:**"
  /\ CardBody[5].items[1].text = "**Affected Jurisdictions:**"
  /\ CardBody[6].items[1].actions[1].type = "Action.OpenUrl"

\* C9: whatever subset of its fields a record lacks (jurisdiction entries
\* without a name included), the card is a fully-formed message envelope in
\* which every absent field shows its placeholder; for the empty record every
\* text is "N/A", the status colour "default", the in-force status
\* "Not In Force" in "attention", the action URL "#" and both counts 0.
C9_MissingFieldsGetPlaceholders ==
  payload # None =>
    /\ FullyFormed
    /\ \A f \in DOMAIN TextFields :
         Shown(f) = (IF f \in DOMAIN CardData THEN CardData[f] ELSE "N/A")
    /\ "gta_evaluation" \notin DOMAIN CardData
         => /\ CardBody[2].columns[1].items[1].text = "GTA Evaluation: N/A"
            /\ CardBody[2].columns[1].items[1].color = "default"
    /\ "is_in_force" \notin DOMAIN CardData
         => /\ CardBody[2].columns[2].items[1].text = "Status: Not In Force"
            /\ CardBody[2].columns[2].items[1].color = "attention"
    /\ "affected_products" \notin DOMAIN CardData
         => Facts[5].value = "0 product(s)"
    /\ "affected_sectors" \notin DOMAIN CardData
         => Facts[6].value = "0 sector(s)"
    /\ "implementing_jurisdictions" \notin DOMAIN CardData
         => ImplementerLine = "N/A"
    /\ "affected_jurisdictions" \notin DOMAIN CardData
         => AffectedLine = "N/A"
    /\ "intervention_url" \notin DOMAIN CardData
         => CardBody[6].items[1].actions[1].url = "#"

C9_Witness ==
  /\ payload # None
  /\ DOMAIN CardData = {}
  /\ CardBody[1].text = "N/A"
  /\ CardBody[2].columns[1].items[1].color = "default"
  /\ CardBody[2].columns[2].items[1].text = "Status: Not In Force"
  /\ CardBody[2].columns[2].items[1].color = "attention"
  /\ [i \in 1..6 |-> Facts[i].value]
       = <<"N/A", "N/A", "N/A", "N/A", "0 product(s)", "0 sector(s)">>
  /\ ImplementerLine = "N/A"
  /\ AffectedLine = "N/A"
  /\ CardBody[6].items[1].actions[1].url = "#"

IsPrefix(a, b) == Len(a) <= Len(b) /\ a = SubSeq(b, 1, Len(a))

\* the list of records the data API answered with
FetchedList == FetchOutcome.response[1].json[1]

\* C10: the steps of a run happen in the order fetch, card build, webhook
\* send, log outcome; at most one fetch and at most one webhook POST are
\* issued, the fetch first; a POST is issued only after a fetch that returned
\* a non-empty list, and what is posted is the card built from the first
\* record of that list.
C10_FetchBuildSendLog ==
  /\ \/ IsPrefix(trace, <<"fetch", "build", "send", "log">>)
     \/ trace = <<"fetch", "log">>
  /\ Cardinality(FetchCalls) <= 1
  /\ Cardinality(WebhookCalls) <= 1
  /\ FetchCalls \subseteq {1}
  /\ WebhookCalls \subseteq {2}
  /\ payload # None => FetchCalls = {1}
  /\ WebhookCalls # {} =>
       /\ FetchAnswered
       /\ FetchOutcome.response[1].status_code = 200
       /\ FetchOutcome.response[1].json # None
       /\ Len(FetchedList) > 0
       /\ interventions = Some(FetchedList)
       /\ http_calls[2].request.method = "POST"
       /\ http_calls[2].request.url = environ["WEBHOOK_URL"]
       /\ http_calls[2].request.data.json
            = _generate_adaptive_card(FetchedList[1])
       /\ payload = Some(http_calls[2].request.data.json)

C10_Witness ==
  /\ Exited
  /\ trace = <<"fetch", "build", "send", "log">>
  /\ Len(http_calls) = 2
  /\ Len(FetchedList) = 2
  /\ FetchedList[1] # FetchedList[2]
  /\ exit_code = Some(0)

====
